---- MODULE Spec2Model ----
(***************************************************************************)
(* Model of comms_automation.py: the link table kept in the Streamlit      *)
(* session, the Generate handler (validation, one AI request, the intro    *)
(* splice) and create_hyperlinked_docx.                                    *)
(*                                                                         *)
(* A Python str is modelled as a sequence of code points, each written as  *)
(* a one-element TLA+ string, so that find / split / replace / strip / in  *)
(* are computed position by position as CPython computes them.             *)
(***************************************************************************)
EXTENDS Integers, Sequences, FiniteSets, TLC

VARIABLES
    links,            \* st.session_state.links: sequence of [category, url]
    template_text,    \* the template text area
    api_key,          \* sidebar text input
    ai_instructions,  \* instructions text area
    use_ai,           \* the "Use AI" checkbox
    result,           \* outcome of the last run: "idle", "validation_error", "generated"; "built" after a direct call
    messages,         \* st.error / st.warning / st.success calls of the last Generate run, in order
    requests,         \* number of requests.post calls made by the last Generate run
    ai_response,      \* value returned by generate_ai_content in the last Generate run
    intro,            \* the local `intro` of the last Generate run
    final_template,   \* the local `final_template` of the last Generate run
    doc,              \* the document built by the last Generate run (<<>> when none)
    download          \* whether st.download_button was rendered

vars == <<links, template_text, api_key, ai_instructions, use_ai, result, messages,
          requests, ai_response, intro, final_template, doc, download>>

-----------------------------------------------------------------------------
(* Bounds of the model *)

MaxLinks == 2

MaxTemplateLen == 4

MaxTemplatePieces == 3

MaxResponsePieces == 4

-----------------------------------------------------------------------------
(* Python str primitives on sequences of code points; indices are 0-based  *)
(* as in Python.                                                           *)

NL == "\n"

Whitespace == {" ", NL, "\t", "\r", "\f"}

\* s[lo:hi]
Slice(s, lo, hi) == SubSeq(s, lo + 1, hi)

\* s.startswith(sub, i)
StartsWithAt(s, sub, i) ==
    /\ i + Len(sub) <= Len(s)
    /\ \A k \in 1..Len(sub) : s[i + k] = sub[k]

\* s.find(sub): lowest index, or -1
Find(s, sub) ==
    LET hits == {i \in 0..(Len(s) - Len(sub)) : StartsWithAt(s, sub, i)}
    IN  IF hits = {} THEN -1 ELSE CHOOSE i \in hits : \A j \in hits : i <= j

\* sub in s
In(sub, s) == Find(s, sub) # -1

\* s.split(sep), sep non-empty: cut at the non-overlapping occurrences, left to right
RECURSIVE Split(_, _)
Split(s, sep) ==
    LET i == Find(s, sep)
    IN  IF i = -1
        THEN <<s>>
        ELSE <<Slice(s, 0, i)>> \o Split(Slice(s, i + Len(sep), Len(s)), sep)

\* s.replace(old, new), old non-empty
RECURSIVE Replace(_, _, _)
Replace(s, old, new) ==
    LET i == Find(s, old)
    IN  IF i = -1
        THEN s
        ELSE Slice(s, 0, i) \o new \o Replace(Slice(s, i + Len(old), Len(s)), old, new)

\* s.lstrip(), s.rstrip(), s.strip()
RECURSIVE LStrip(_)
LStrip(s) == IF s # <<>> /\ Head(s) \in Whitespace THEN LStrip(Tail(s)) ELSE s

RECURSIVE RStrip(_)
RStrip(s) ==
    IF s # <<>> /\ s[Len(s)] \in Whitespace THEN RStrip(SubSeq(s, 1, Len(s) - 1)) ELSE s

Strip(s) == RStrip(LStrip(s))

\* "".join(parts)
RECURSIVE Join(_)
Join(parts) == IF parts = <<>> THEN <<>> ELSE Head(parts) \o Join(Tail(parts))

-----------------------------------------------------------------------------
(* The document: a sequence of paragraphs, each a sequence of child        *)
(* elements of w:p in document order.                                      *)

\* paragraph.add_run(text): a plain w:r
Run(text) == [kind |-> "run", text |-> text, url |-> ""]

\* add_hyperlink without the w:t text element
add_hyperlink_no_text(url, text) == [kind |-> "hyperlink", text |-> <<>>, url |-> url]

\* the w:hyperlink element appended by add_hyperlink
add_hyperlink(url, text) == [kind |-> "hyperlink", text |-> text, url |-> url]

\* d[k] = v on an insertion-ordered dict held as a sequence of [category, url]
RECURSIVE DictSet(_, _, _)
DictSet(d, k, v) ==
    IF d = <<>> THEN <<[category |-> k, url |-> v]>>
    ELSE IF Head(d).category = k THEN <<[category |-> k, url |-> v]>> \o Tail(d)
    ELSE <<Head(d)>> \o DictSet(Tail(d), k, v)

\* {link['category']: link['url'] for link in st.session_state.links}
RECURSIVE DictOf(_, _)
DictOf(table, n) ==
    IF n = 0 THEN <<>>
    ELSE DictSet(DictOf(table, n - 1), table[n].category, table[n].url)

links_dict(table) == DictOf(table, Len(table))

\* the inner loop over links_dict.items() for one line, from item k on,
\* with the `if not link_found` fallback
RECURSIVE ScanLinks(_, _, _)
ScanLinks(line, d, k) ==
    IF k > Len(d) THEN <<Run(line)>>
    ELSE LET category == d[k].category
             url      == d[k].url
         IN  IF In(category, line)
             THEN LET parts == Split(line, category)
                  IN  IF Len(parts) = 2
                      THEN <<Run(parts[1]), add_hyperlink(url, category), Run(parts[2])>>
                      ELSE ScanLinks(line, d, k + 1)
             ELSE ScanLinks(line, d, k + 1)

\* create_hyperlinked_docx splitting with str.splitlines(): no trailing empty line
create_hyperlinked_docx_splitlines(text, d) ==
    LET all   == Split(text, <<NL>>)
        lines == IF all[Len(all)] = <<>> THEN SubSeq(all, 1, Len(all) - 1) ELSE all
    IN  [n \in 1..Len(lines) |-> ScanLinks(lines[n], d, 1)]

create_hyperlinked_docx(text, d) ==
    LET lines == Split(text, <<NL>>)
    IN  [n \in 1..Len(lines) |-> ScanLinks(lines[n], d, 1)]

-----------------------------------------------------------------------------
(* The Generate handler's pieces *)

INTRO_MARKER == <<"I", "N", "T", "R", "O", ":">>

NOTES_MARKER ==
    <<"I", "M", "P", "O", "R", "T", "A", "N", "T", "_", "N", "O", "T", "E", "S", ":">>

\* "Hi!"
GREETING == <<"H", "i", "!">>

\* the section anchor literal: U+1F37D followed by U+FE0F
SECTION_ANCHOR == <<"U+1F37D", "U+FE0F">>

\* Python values that may be None
None == [none |-> TRUE, text |-> <<>>]

Str(s) == [none |-> FALSE, text |-> s]

\* truth value of an optional str
Truthy(v) == ~v.none /\ v.text # <<>>

\* what happens to the one requests.post of call_openrouter
FailureKinds == {"transport_error", "http_status", "timeout", "malformed_body"}

Ok(content) == [kind |-> "ok", content |-> content]

Failed(kind) == [kind |-> kind, content |-> <<>>]

\* call_openrouter / generate_ai_content: the completion text, or None on any exception
call_openrouter(outcome) ==
    IF outcome.kind = "ok" THEN Str(outcome.content) ELSE None

\* the validation chain without the link-table branch
Validation_skips_links(text, table, ai, key, instructions) ==
    IF text = <<>> THEN "error_template"
    ELSE IF ai /\ key = "" THEN "error_api_key"
    ELSE IF ai /\ instructions = "" THEN "error_instructions"
    ELSE "ok"

\* the if / elif validation chain; "ok" is the else branch
Validation(text, table, ai, key, instructions) ==
    IF text = <<>> THEN "error_template"
    ELSE IF table = <<>> THEN "error_links"
    ELSE IF ai /\ key = "" THEN "error_api_key"
    ELSE IF ai /\ instructions = "" THEN "error_instructions"
    ELSE "ok"

\* the marker test looking for "INTRO:" alone
HasMarkers_intro_only(response) ==
    Truthy(response) /\ Find(response.text, <<"I", "N", "T", "R", "O", ":">>) # -1

\* whether the marker test of the parse step passes
HasMarkers(response) ==
    Truthy(response) /\ In(INTRO_MARKER, response.text) /\ In(NOTES_MARKER, response.text)

\* the extraction without the final strip()
ExtractIntro_no_strip(response_text) ==
    Replace(Split(response_text, NOTES_MARKER)[1], INTRO_MARKER, <<>>)

\* parts = ai_response.split("IMPORTANT_NOTES:"); intro = parts[0].replace("INTRO:", "").strip()
ExtractIntro(response_text) ==
    Strip(Replace(Split(response_text, NOTES_MARKER)[1], INTRO_MARKER, <<>>))

\* the replacement with final_template[:intro_start] left out
SpliceIntro_drops_prefix(template, intro_text) ==
    IF In(GREETING, template)
    THEN LET intro_start == Find(template, GREETING)
             intro_end   == Find(template, SECTION_ANCHOR)
         IN  IF intro_end > intro_start
             THEN GREETING \o <<NL, NL>> \o intro_text \o <<NL, NL>>
                    \o Slice(template, intro_end, Len(template))
             ELSE template
    ELSE template

\* the anchor-based replacement of the intro paragraph
SpliceIntro(template, intro_text) ==
    IF In(GREETING, template)
    THEN LET intro_start == Find(template, GREETING)
             intro_end   == Find(template, SECTION_ANCHOR)
         IN  IF intro_end > intro_start
             THEN Slice(template, 0, intro_start)
                    \o GREETING \o <<NL, NL>> \o intro_text \o <<NL, NL>>
                    \o Slice(template, intro_end, Len(template))
             ELSE template
    ELSE template

\* the customization block taking the response text as the template when nothing is spliced
Customize_uses_response(response, template) ==
    IF Truthy(response)
         /\ In(INTRO_MARKER, response.text) /\ In(NOTES_MARKER, response.text)
    THEN SpliceIntro(template, ExtractIntro(response.text))
    ELSE response.text

\* final_template after the AI customization block, given what the request returned
Customize(response, template) ==
    IF HasMarkers(response)
    THEN SpliceIntro(template, ExtractIntro(response.text))
    ELSE template

\* the st.* notices of a Generate run that passed validation
Notices(ai, outcome, response) ==
    (IF ai /\ outcome.kind # "ok" THEN <<"api_error">> ELSE <<>>)
    \o (IF ai THEN (IF Truthy(response) THEN <<"ai_success">> ELSE <<"ai_warning">>) ELSE <<>>)
    \o <<"success">>

-----------------------------------------------------------------------------
(* Script runs. Every widget interaction reruns the script; only a run     *)
(* started by the Generate button renders the Generate branch.             *)

\* a rerun in which the Generate button is not pressed
NothingGenerated ==
    /\ result' = "idle"
    /\ messages' = <<>>
    /\ requests' = 0
    /\ ai_response' = None
    /\ intro' = <<>>
    /\ final_template' = <<>>
    /\ doc' = <<>>
    /\ download' = FALSE

EditTemplate(text) ==
    /\ template_text' = text
    /\ NothingGenerated
    /\ UNCHANGED <<links, api_key, ai_instructions, use_ai>>

SetApiKey(key) ==
    /\ api_key' = key
    /\ NothingGenerated
    /\ UNCHANGED <<links, template_text, ai_instructions, use_ai>>

SetInstructions(text) ==
    /\ ai_instructions' = text
    /\ NothingGenerated
    /\ UNCHANGED <<links, template_text, api_key, use_ai>>

SetUseAI(b) ==
    /\ use_ai' = b
    /\ NothingGenerated
    /\ UNCHANGED <<links, template_text, api_key, ai_instructions>>

AddLink(new_category, new_url) ==
    /\ Len(links) < MaxLinks
    /\ links' = IF new_category # <<>> /\ new_url # ""
                THEN Append(links, [category |-> new_category, url |-> new_url])
                ELSE links
    /\ NothingGenerated
    /\ UNCHANGED <<template_text, api_key, ai_instructions, use_ai>>

\* st.session_state.links.pop(idx), idx 0-based
DeleteLink(idx) ==
    /\ idx \in 0..(Len(links) - 1)
    /\ links' = SubSeq(links, 1, idx) \o SubSeq(links, idx + 2, Len(links))
    /\ NothingGenerated
    /\ UNCHANGED <<template_text, api_key, ai_instructions, use_ai>>

ClearAllLinks ==
    /\ links' = <<>>
    /\ NothingGenerated
    /\ UNCHANGED <<template_text, api_key, ai_instructions, use_ai>>

\* the Generate button; outcome is what the network does to the request, if one is made
Generate(outcome) ==
    LET validation == Validation(template_text, links, use_ai, api_key, ai_instructions)
    IN  /\ IF validation # "ok"
           THEN /\ result' = "validation_error"
                /\ messages' = <<validation>>
                /\ requests' = 0
                /\ ai_response' = None
                /\ intro' = <<>>
                /\ final_template' = <<>>
                /\ doc' = <<>>
                /\ download' = FALSE
           ELSE LET response == IF use_ai THEN call_openrouter(outcome) ELSE None
                    customized == IF use_ai
                                  THEN Customize(response, template_text)
                                  ELSE template_text
                IN  /\ result' = "generated"
                    /\ messages' = Notices(use_ai, outcome, response)
                    /\ requests' = IF use_ai THEN 1 ELSE 0
                    /\ ai_response' = response
                    /\ intro' = IF HasMarkers(response)
                                THEN ExtractIntro(response.text)
                                ELSE <<>>
                    /\ final_template' = customized
                    /\ doc' = create_hyperlinked_docx(customized, links_dict(links))
                    /\ download' = TRUE
        /\ UNCHANGED <<links, template_text, api_key, ai_instructions, use_ai>>

\* a direct call create_hyperlinked_docx(template_text, links_dict)
CallCreateDocx ==
    /\ result = "idle"
    /\ result' = "built"
    /\ final_template' = template_text
    /\ doc' = create_hyperlinked_docx(template_text, links_dict(links))
    /\ UNCHANGED <<links, template_text, api_key, ai_instructions, use_ai, messages,
                   requests, ai_response, intro, download>>

-----------------------------------------------------------------------------
(* Inputs *)

SeqsUpTo(S, n) == UNION {[1..k -> S] : k \in 0..n}

LinkTexts == {<<"a">>, <<"b">>, <<"a", "b">>}

Urls == {"u1", "u2"}

LinkEntries == [category : LinkTexts, url : Urls]

LinkTables == SeqsUpTo(LinkEntries, MaxLinks)

\* templates handed to create_hyperlinked_docx directly
DocChars == {"a", "b", "x", NL}

DocTemplates == SeqsUpTo(DocChars, MaxTemplateLen)

\* templates and completions for the splice, built from the literals it looks for
TemplatePieces == {GREETING, SECTION_ANCHOR, <<"a">>}

SpliceTemplates == {Join(p) : p \in SeqsUpTo(TemplatePieces, MaxTemplatePieces)}

ResponsePieces == {INTRO_MARKER, NOTES_MARKER, <<"x">>, <<" ">>}

Completions == {Join(p) : p \in SeqsUpTo(ResponsePieces, MaxResponsePieces)}

SpliceOutcomes == {Ok(c) : c \in Completions} \cup {Failed(k) : k \in FailureKinds}

\* what the operator types and receives in the interactive model
UITemplates ==
    { <<>>,
      <<"a">>,
      <<"x", "b", NL, "a", "b">>,
      <<"b", " ", "a", NL>>,
      GREETING \o <<NL, "x", NL>> \o SECTION_ANCHOR \o <<"a">> }

UICompletions ==
    { <<>>,
      <<"x">>,
      INTRO_MARKER \o <<NL, "x", NL>> \o NOTES_MARKER \o <<"x">>,
      <<"x">> \o INTRO_MARKER \o <<"x">> \o NOTES_MARKER }

UIOutcomes == {Ok(c) : c \in UICompletions} \cup {Failed(k) : k \in FailureKinds}

ApiKeys == {"", "sk"}

Instructions == {"", "strict deadline"}

-----------------------------------------------------------------------------
(* Specifications *)

Blank ==
    /\ result = "idle"
    /\ messages = <<>>
    /\ requests = 0
    /\ ai_response = None
    /\ intro = <<>>
    /\ final_template = <<>>
    /\ doc = <<>>
    /\ download = FALSE

\* the interactive program: a fresh session
Init ==
    /\ links = <<>>
    /\ template_text = <<>>
    /\ api_key = ""
    /\ ai_instructions = ""
    /\ use_ai = TRUE
    /\ Blank

Next ==
    \/ \E t \in UITemplates : EditTemplate(t)
    \/ \E k \in ApiKeys : SetApiKey(k)
    \/ \E i \in Instructions : SetInstructions(i)
    \/ \E b \in BOOLEAN : SetUseAI(b)
    \/ \E c \in LinkTexts \cup {<<>>}, u \in Urls \cup {""} : AddLink(c, u)
    \/ \E idx \in 0..(MaxLinks - 1) : DeleteLink(idx)
    \/ ClearAllLinks
    \/ \E o \in UIOutcomes : Generate(o)

Spec == Init /\ [][Next]_vars

\* create_hyperlinked_docx as a pure function of its two arguments
InitDocx ==
    /\ links \in LinkTables
    /\ template_text \in DocTemplates
    /\ api_key = ""
    /\ ai_instructions = ""
    /\ use_ai = FALSE
    /\ Blank

NextDocx == CallCreateDocx

SpecDocx == InitDocx /\ [][NextDocx]_vars

\* the Generate handler with AI enabled, over templates and completions
InitSplice ==
    /\ links = <<[category |-> <<"a">>, url |-> "u1"] >>
    /\ template_text \in SpliceTemplates
    /\ api_key = "sk"
    /\ ai_instructions = "strict deadline"
    /\ use_ai = TRUE
    /\ Blank

NextSplice == result = "idle" /\ \E o \in SpliceOutcomes : Generate(o)

SpecSplice == InitSplice /\ [][NextSplice]_vars

-----------------------------------------------------------------------------
(* Vocabulary of the properties, stated on positions of the text and not   *)
(* through the operators above.                                            *)

\* 1-based positions at which sub occurs in s
Occurrences(sub, s) ==
    {p \in 1..(Len(s) - Len(sub) + 1) : SubSeq(s, p, p + Len(sub) - 1) = sub}

Min(S) == CHOOSE x \in S : \A y \in S : x <= y

Max(S) == CHOOSE x \in S : \A y \in S : x >= y

Blanks == {" ", "\n", "\t", "\r", "\f"}

\* s without its leading and trailing blanks
Trimmed(s) ==
    LET inked == {p \in 1..Len(s) : s[p] \notin Blanks}
    IN  IF inked = {} THEN <<>> ELSE SubSeq(s, Min(inked), Max(inked))

NewlinePositions(text) == {p \in 1..Len(text) : text[p] = NL}

LineCount(text) == Cardinality(NewlinePositions(text)) + 1

\* the n-th newline-delimited line of text, n in 1..LineCount(text)
LineAt(text, n) ==
    LET nls   == NewlinePositions(text)
        kth(k) == CHOOSE p \in nls : Cardinality({q \in nls : q <= p}) = k
        from  == IF n = 1 THEN 1 ELSE kth(n - 1) + 1
        to    == IF n = LineCount(text) THEN Len(text) ELSE kth(n) - 1
    IN  SubSeq(text, from, to)

\* indices of the link-table entries whose text occurs in the line
Matching(line) == {i \in 1..Len(links) : Occurrences(links[i].category, line) # {}}

HyperlinksOf(paragraph) == {k \in 1..Len(paragraph) : paragraph[k].kind = "hyperlink"}

ParagraphText(paragraph) == Join([k \in 1..Len(paragraph) |-> paragraph[k].text])

IsPlain(element, text) == element.kind = "run" /\ element.text = text

IsLink(element, text, url) ==
    element.kind = "hyperlink" /\ element.text = text /\ element.url = url

DocBuilt == result \in {"built", "generated"}

-----------------------------------------------------------------------------
(* create_hyperlinked_docx: claims C1, C2, C4, C5 (under SpecDocx) *)

\* C1: in every line that contains the text of two distinct link-table entries, the
\* entry earlier in table order is the one emitted as that paragraph's hyperlink,
\* however often either text occurs in the line.
C1_EarlierEntryIsHyperlinked ==
    DocBuilt =>
        \A n \in 1..Len(doc) :
            LET line == LineAt(final_template, n)
                m    == Matching(line)
            IN  Cardinality({links[i].category : i \in m}) >= 2 =>
                    \E k \in HyperlinksOf(doc[n]) :
                        doc[n][k].text = links[Min(m)].category

\* C2: when the text of the first matching entry occurs more than once in a line, the
\* paragraph is still three runs: the text before the first occurrence, a hyperlink
\* for that occurrence, and a plain run with everything after it.
C2_RepeatedTextStillThreeRuns ==
    DocBuilt =>
        \A n \in 1..Len(doc) :
            LET line == LineAt(final_template, n)
                m    == Matching(line)
            IN  m # {} =>
                LET text == links[Min(m)].category
                    occ  == Occurrences(text, line)
                IN  Cardinality(occ) > 1 =>
                        /\ Len(doc[n]) = 3
                        /\ IsPlain(doc[n][1], SubSeq(line, 1, Min(occ) - 1))
                        /\ doc[n][2].kind = "hyperlink" /\ doc[n][2].text = text
                        /\ IsPlain(doc[n][3], SubSeq(line, Min(occ) + Len(text), Len(line)))

\* C4: the document has exactly as many paragraphs as the template has
\* newline-delimited lines, paragraph n carrying line n (an empty template gives one
\* empty paragraph, a trailing newline a trailing empty paragraph), and no paragraph
\* holds more than one hyperlink.
C4_OneParagraphPerLine ==
    result = "built" =>
        /\ Len(doc) = LineCount(template_text)
        /\ \A n \in 1..Len(doc) :
               /\ ParagraphText(doc[n]) = LineAt(template_text, n)
               /\ Cardinality(HyperlinksOf(doc[n])) <= 1

\* a template ending in a newline after a line that holds two entries' texts
C4_Witness ==
    /\ result = "built"
    /\ Len(template_text) >= 3
    /\ template_text[Len(template_text)] = NL
    /\ doc[Len(doc)] = <<Run(<<>>)>>
    /\ Cardinality(Matching(LineAt(template_text, 1))) = 2
    /\ Cardinality(HyperlinksOf(doc[1])) = 1

\* C5: a line with exactly one occurrence of the text of exactly one entry becomes
\* prefix, hyperlink(entry text, entry URL), suffix, whose texts concatenate to the
\* line; a line matching no entry becomes one plain run equal to the line.
C5_SingleMatchThreeRuns ==
    result = "built" =>
        \A n \in 1..Len(doc) :
            LET line == LineAt(template_text, n)
                m    == Matching(line)
            IN  /\ (m = {}) => doc[n] = <<[kind |-> "run", text |-> line, url |-> ""]>>
                /\ (Cardinality(m) = 1
                      /\ Cardinality(Occurrences(links[Min(m)].category, line)) = 1) =>
                        /\ Len(doc[n]) = 3
                        /\ doc[n][1].kind = "run"
                        /\ IsLink(doc[n][2], links[Min(m)].category, links[Min(m)].url)
                        /\ doc[n][3].kind = "run"
                        /\ doc[n][1].text \o doc[n][2].text \o doc[n][3].text = line

\* one line with a single match after a non-empty prefix, another matching nothing
C5_Witness ==
    /\ result = "built"
    /\ Len(doc) = 2
    /\ Cardinality(Matching(LineAt(template_text, 1))) = 1
    /\ Len(doc[1]) = 3
    /\ doc[1][1].text # <<>>
    /\ doc[1][2].url = "u2"
    /\ Matching(LineAt(template_text, 2)) = {}
    /\ doc[2] = <<Run(<<"x">>)>>

-----------------------------------------------------------------------------
(* The link table and the Generate handler: claims C3, C9, C10 (under Spec) *)

\* C3: for every link table built by Add Link / delete / Clear All, also one holding
\* several entries with the same text and different URLs, the hyperlink of a matching
\* line targets the URL of the first entry in table order whose text occurs in the line.
C3_FirstEntryUrlWins ==
    result = "generated" =>
        \A n \in 1..Len(doc) :
            LET m == Matching(LineAt(final_template, n))
            IN  m # {} =>
                    \E k \in HyperlinksOf(doc[n]) : doc[n][k].url = links[Min(m)].url

AIFailed == result = "generated" /\ use_ai /\ "api_error" \in {messages[k] : k \in 1..Len(messages)}

\* C9: when the AI request of a Generate run fails, exactly one request was made and
\* the document is still built from the unmodified template and the link table and
\* offered for download.
C9_FailedRequestStillGenerates ==
    AIFailed =>
        /\ requests = 1
        /\ ai_response = None
        /\ final_template = template_text
        /\ Len(doc) = LineCount(template_text)
        /\ \A n \in 1..Len(doc) : ParagraphText(doc[n]) = LineAt(template_text, n)
        /\ doc = create_hyperlinked_docx(template_text, links_dict(links))
        /\ download

\* a failed request on a template that holds both anchors and a linked text
C9_Witness ==
    /\ AIFailed
    /\ In(GREETING, template_text) /\ In(SECTION_ANCHOR, template_text)
    /\ \E n \in 1..Len(doc) : HyperlinksOf(doc[n]) # {}
    /\ download

InputsMissing ==
    \/ template_text = <<>>
    \/ links = <<>>
    \/ use_ai /\ api_key = ""
    \/ use_ai /\ ai_instructions = ""

ValidationErrors == {"error_template", "error_links", "error_api_key", "error_instructions"}

\* C10: a Generate run with the template empty, the link table empty, or AI enabled
\* without key or without instructions makes no request, builds no document, offers
\* no download and shows only a validation error.
C10_MissingInputAborts ==
    (result # "idle" /\ InputsMissing) =>
        /\ result = "validation_error"
        /\ requests = 0
        /\ doc = <<>>
        /\ ~download
        /\ Len(messages) = 1 /\ messages[1] \in ValidationErrors

\* template and links present, AI enabled, instructions given, but no API key
C10_Witness ==
    /\ result = "validation_error"
    /\ template_text # <<>> /\ links # <<>>
    /\ use_ai /\ api_key = "" /\ ai_instructions # ""
    /\ messages = <<"error_api_key">>

-----------------------------------------------------------------------------
(* The intro splice: claims C6, C7, C8 (under SpecSplice) *)

Parsed == result = "generated" /\ ~ai_response.none

\* the trimmed texts lying strictly between an INTRO marker and a later
\* IMPORTANT_NOTES marker of the response
TextsBetweenMarkers(response_text) ==
    {Trimmed(SubSeq(response_text, i + Len(INTRO_MARKER), j - 1)) :
        <<i, j>> \in {<<i, j>> \in Occurrences(INTRO_MARKER, response_text)
                                     \X Occurrences(NOTES_MARKER, response_text) :
                          i + Len(INTRO_MARKER) <= j}}

\* C6: the extracted intro is exactly the trimmed text strictly between the INTRO
\* marker and the IMPORTANT_NOTES marker, for every response holding both, also with
\* text before the INTRO marker or a repeated marker.
C6_IntroIsTextBetweenMarkers ==
    (Parsed /\ TextsBetweenMarkers(ai_response.text) # {}) =>
        intro \in TextsBetweenMarkers(ai_response.text)

BothMarkers ==
    /\ Occurrences(INTRO_MARKER, ai_response.text) # {}
    /\ Occurrences(NOTES_MARKER, ai_response.text) # {}

\* only blanks precede the INTRO marker, and it is the one INTRO marker before the
\* first IMPORTANT_NOTES marker
IntroMarkerLeads ==
    /\ BothMarkers
    /\ LET i == Min(Occurrences(INTRO_MARKER, ai_response.text))
           j == Min(Occurrences(NOTES_MARKER, ai_response.text))
       IN  /\ {k \in Occurrences(INTRO_MARKER, ai_response.text) : k < j} = {i}
           /\ \A p \in 1..(i - 1) : ai_response.text[p] \in Blanks

\* C6 (amended): the extracted intro is the trimmed text strictly between the INTRO
\* marker and the first IMPORTANT_NOTES marker whenever only whitespace precedes the
\* INTRO marker and no second INTRO marker comes before the first IMPORTANT_NOTES marker.
C6_IntroBetweenLeadingMarkers ==
    (Parsed /\ IntroMarkerLeads) =>
        LET i == Min(Occurrences(INTRO_MARKER, ai_response.text))
            j == Min(Occurrences(NOTES_MARKER, ai_response.text))
        IN  intro = Trimmed(SubSeq(ai_response.text, i + Len(INTRO_MARKER), j - 1))

\* blanks, the INTRO marker, a body, the IMPORTANT_NOTES marker
C6_Witness ==
    /\ Parsed /\ IntroMarkerLeads
    /\ Min(Occurrences(INTRO_MARKER, ai_response.text)) > 1
    /\ intro = <<"x">>

AnchorAfterGreeting ==
    /\ Occurrences(GREETING, template_text) # {}
    /\ Occurrences(SECTION_ANCHOR, template_text) # {}
    /\ Min(Occurrences(SECTION_ANCHOR, template_text)) > Min(Occurrences(GREETING, template_text))

\* C7: with both markers in the response, "Hi!" in the template and the first section
\* anchor after the first "Hi!", the spliced template is the text before the first
\* "Hi!", then "Hi!\n\n" + intro + "\n\n", then the text from the first anchor on.
C7_SpliceReplacesIntro ==
    (Parsed /\ BothMarkers /\ AnchorAfterGreeting) =>
        LET g == Min(Occurrences(GREETING, template_text))
            a == Min(Occurrences(SECTION_ANCHOR, template_text))
        IN  final_template =
                SubSeq(template_text, 1, g - 1)
                  \o <<"H", "i", "!", NL, NL>> \o intro \o <<NL, NL>>
                  \o SubSeq(template_text, a, Len(template_text))

\* text before the greeting is kept, the old intro is replaced by a non-empty one
C7_Witness ==
    /\ Parsed /\ BothMarkers /\ AnchorAfterGreeting
    /\ Min(Occurrences(GREETING, template_text)) > 1
    /\ intro = <<"x">>
    /\ final_template # template_text
    /\ download

\* C8: the splice leaves the template unchanged when the response lacks the INTRO
\* marker, or lacks the IMPORTANT_NOTES marker, or the template has no "Hi!", or no
\* section anchor, or its first section anchor is at or before its first "Hi!".
C8_SpliceSkipped ==
    (Parsed /\ ~(BothMarkers /\ AnchorAfterGreeting)) => final_template = template_text

\* a well-formed response, but the first anchor precedes the first greeting
C8_Witness ==
    /\ Parsed /\ BothMarkers
    /\ intro # <<>>
    /\ Occurrences(GREETING, template_text) # {}
    /\ Occurrences(SECTION_ANCHOR, template_text) # {}
    /\ Min(Occurrences(SECTION_ANCHOR, template_text)) < Min(Occurrences(GREETING, template_text))
    /\ final_template = template_text

====
